---- MODULE Spec2Model ----
(***************************************************************************)
(* Screenshot plugin registry, autodetection and dispatch of lxi-tools,    *)
(* with the Siglent SDM3000 screenshot exchange.                           *)
(*                                                                         *)
(* Strings are sequences of one-character strings.  The byte alphabet of  *)
(* instrument responses is Bytes; the alphabet of plugin regular           *)
(* expressions is "F", "B", "." (any character), "(" (an unbalanced        *)
(* parenthesis, which regcomp rejects) and " " (the strtok delimiter).     *)
(***************************************************************************)
EXTENDS Integers, Sequences, FiniteSets, TLC

\* ------------------------------------------------------------------ bounds
\* Size of the identity buffer.  The source sets 65536 (line 135); the model
\* scales it down so that every buffer content can be enumerated.
ID_LENGTH_MAX == 2
\* Number of screenshot_plugin_register calls explored from an empty list.
MaxRegistrations == 2
\* Free entries left in the plugin list when the capacity runs start.
RegHeadroom == 3

\* --------------------------------------------------------- program constants
PLUGIN_LIST_SIZE_MAX == 50

NULL == "NULL"
NUL == "NUL"
LF == "LF"

Bytes == {NUL, "F", "B", LF}
\* Bytes of a textual *IDN? response
TextBytes == {"F", "B", LF}
\* Timeout values a caller passes / an int parameter may hold
Timeouts == {0, 5}
IntValues == {0, 1, 5}
Addresses == {<<>>, <<"h">>}
PluginNames == {<<>>, <<"a">>, <<"A">>, <<"s">>, <<"z">>}

\* struct screenshot_plugin instances.  siglent_sdm3000 is the descriptor of
\* the source (its name and regex abbreviated to the model's alphabet, its
\* handler defined with three parameters: address, id, timeout); the others
\* stand for descriptors whose handler has the two parameters of the call in
\* screenshot().
Plugins ==
    [p \in {"plug_a", "plug_b", "plug_A", "siglent_sdm3000"} |->
        CASE p = "plug_a" -> [name |-> <<"a">>, regex |-> <<"(", " ", "F">>, params |-> 2]
          [] p = "plug_b" -> [name |-> <<"b">>, regex |-> <<"F", " ", "B">>, params |-> 2]
          [] p = "plug_A" -> [name |-> <<"A">>, regex |-> NULL, params |-> 2]
          [] p = "siglent_sdm3000" ->
                 [name |-> <<"s">>, regex |-> <<"B", " ", " ", "F", ".">>, params |-> 3]]

PluginPool == DOMAIN Plugins

\* The descriptors screenshot_register_plugins registers, in its order
BuiltinPlugins ==
    <<"keysight_iv2000x", "rigol_1000", "rigol_2000", "rs_hmo1000", "tektronix_2000">>

VARIABLES
    plugin_list,   \* static struct screenshot_plugin *plugin_list[PLUGIN_LIST_SIZE_MAX]
    regLog,        \* the arguments of the screenshot_plugin_register calls so far
    budget,        \* register calls still explored
    pc,            \* position of the process
    msg,           \* the error message printed before exit(EXIT_FAILURE)
    address,       \* screenshot() arguments
    plugin_name,
    timeout,
    id,            \* char id[ID_LENGTH_MAX]
    length,        \* get_device_id: bytes received
    data,          \* the bytes the instrument sent in answer to *IDN?
    accessed,      \* buffer positions the newline strip read or wrote
    stripped,      \* the newline strip wrote a terminating 0
    idstr,         \* the C string regexec reads from id
    scores,        \* match_count of each scanned descriptor
    i,             \* index of the selected descriptor
    calls,         \* transport calls issued, in order
    open,          \* connections opened and not disconnected
    invoked,       \* handler invocations
    hret,          \* value the handler returned
    ret            \* value screenshot() returned

vars == <<plugin_list, regLog, budget, pc, msg, address, plugin_name, timeout, id,
          length, data, accessed, stripped, idstr, scores, i, calls, open, invoked, hret, ret>>

regvars == <<plugin_list, regLog, budget>>
argvars == <<address, plugin_name, timeout>>
idvars == <<id, length, data, accessed, stripped>>
detectvars == <<idstr, scores>>
handlervars == <<invoked, hret, ret>>

EmptyList == [k \in 0..(PLUGIN_LIST_SIZE_MAX - 1) |-> NULL]

\* ---------------------------------------------------------------- registry

RECURSIVE ScanList(_, _)
\* while ((i < PLUGIN_LIST_SIZE_MAX) && (plugin_list[i] != NULL)) i++;
ScanList(list, k) ==
    IF k < PLUGIN_LIST_SIZE_MAX /\ list[k] # NULL THEN ScanList(list, k + 1) ELSE k

FirstFreeOverwrite(list) ==
    LET k == ScanList(list, 0) IN IF k = 0 THEN 0 ELSE k - 1

\* Find first available entry in plugin list
FirstFree(list) == ScanList(list, 0)

\* One call of screenshot_plugin_register on the list: the new list, and
\* whether the call ended in exit(EXIT_FAILURE)
RegisterStep(list, p) ==
    LET k == FirstFree(list) IN
    IF k >= PLUGIN_LIST_SIZE_MAX
    THEN [list |-> list, full |-> TRUE]
    ELSE [list |-> [list EXCEPT ![k] = p], full |-> FALSE]

RECURSIVE RegisterAll(_, _, _)
\* Consecutive register calls; the process ends at the first that finds the
\* list full.  Yields the list and the number of calls made.
RegisterAll(list, ps, n) ==
    IF n >= Len(ps) THEN [list |-> list, full |-> FALSE, made |-> n]
    ELSE LET r == RegisterStep(list, ps[n + 1]) IN
         IF r.full THEN [list |-> list, full |-> TRUE, made |-> n + 1]
         ELSE RegisterAll(r.list, ps, n + 1)

screenshot_plugin_register(p) ==
    /\ pc = "startup"
    /\ budget > 0
    /\ LET r == RegisterStep(plugin_list, p) IN
        /\ plugin_list' = r.list
        /\ pc' = IF r.full THEN "exit" ELSE pc
        /\ msg' = IF r.full THEN "Error: Screenshot plugin list full" ELSE msg
    /\ regLog' = Append(regLog, p)
    /\ budget' = budget - 1
    /\ UNCHANGED <<argvars, idvars, detectvars, i, calls, open, handlervars>>

screenshot_register_plugins ==
    /\ pc = "startup"
    /\ budget > 0
    /\ LET r == RegisterAll(plugin_list, BuiltinPlugins, 0) IN
        /\ plugin_list' = r.list
        /\ pc' = IF r.full THEN "exit" ELSE pc
        /\ msg' = IF r.full THEN "Error: Screenshot plugin list full" ELSE msg
        /\ regLog' = regLog \o SubSeq(BuiltinPlugins, 1, r.made)
    /\ budget' = budget - 1
    /\ UNCHANGED <<argvars, idvars, detectvars, i, calls, open, handlervars>>

\* ------------------------------------------------------------- screenshot()

AlwaysAutodetect(name) == TRUE

\* strlen(plugin_name) == 0: no plugin name given, autodetect
AutodetectMode(name) == Len(name) = 0

\* Check for required options (lines 303-309)
screenshot_begin(a, n, t) ==
    /\ pc = "startup"
    /\ address' = a
    /\ plugin_name' = n
    /\ timeout' = t
    /\ IF Len(a) = 0
       THEN pc' = "exit" /\ msg' = "Error: Missing address"
       ELSE /\ pc' = IF AutodetectMode(n) THEN "get_device_id" ELSE "lookup"
            /\ msg' = msg
    /\ UNCHANGED <<regvars, idvars, detectvars, i, calls, open, handlervars>>

Lower(c) == IF c = "A" THEN "a" ELSE c

StrEqualNoCase(a, b) ==
    /\ Len(a) = Len(b)
    /\ \A k \in 1..Len(a) : Lower(a[k]) = Lower(b[k])

\* strcmp(a, b) == 0
StrEqual(a, b) == a = b

\* strcmp(plugin_list[i]->name, plugin_name) == 0
NameMatches(p, name) == StrEqual(Plugins[p].name, name)

RECURSIVE FindByName(_, _, _)
\* The loop of lines 374-382: the index it stops at, and no_match
FindByName(list, name, k) ==
    IF k < PLUGIN_LIST_SIZE_MAX /\ list[k] # NULL
    THEN IF NameMatches(list[k], name)
         THEN [i |-> k, no_match |-> FALSE]
         ELSE FindByName(list, name, k + 1)
    ELSE [i |-> k, no_match |-> TRUE]

\* Explicit plugin name (lines 371-389)
lookup ==
    /\ pc = "lookup"
    /\ LET r == FindByName(plugin_list, plugin_name, 0) IN
        /\ i' = r.i
        /\ IF r.no_match
           THEN pc' = "exit" /\ msg' = "Error: Unknown plugin name"
           ELSE pc' = "dispatch" /\ msg' = msg
    /\ UNCHANGED <<regvars, argvars, idvars, detectvars, calls, open, handlervars>>

\* ------------------------------------------------------------ get_device_id

Call(fn, by, t) == [fn |-> fn, by |-> by, timeout |-> t]

\* The value of the argument expression "timeout != 0" (line 312)
IdTimeoutArg(t) == IF t # 0 THEN 1 ELSE 0

\* The function failed (returned 1): screenshot() exits (lines 312-316)
IdFailed(cs, op) ==
    /\ calls' = cs
    /\ open' = op
    /\ pc' = "exit"
    /\ msg' = "Error: Unable to retrieve instrument ID"
    /\ UNCHANGED <<idvars, i>>

\* Remove trailing newline (lines 169-170) after n bytes were received into
\* buf.  before is the byte in front of the buffer, which id[length-1] reads
\* when length is 0.
StripNewline(buf, n, before) ==
    IF n = 0
    THEN [id |-> buf, accessed |-> {-1}, wrote |-> before = LF]
    ELSE [id |-> IF buf[n - 1] = LF THEN [buf EXCEPT ![n - 1] = NUL] ELSE buf,
          accessed |-> {n - 1}, wrote |-> buf[n - 1] = LF]

get_device_id ==
    /\ pc = "get_device_id"
    /\ LET t == IdTimeoutArg(timeout)
           by == "get_device_id"
           c1 == Append(calls, Call("lxi_connect", by, t))
           c3 == c1 \o <<Call("lxi_send", by, t), Call("lxi_receive", by, t)>>
       IN
       \/ \* lxi_connect returned LXI_ERROR
          IdFailed(c1, open)
       \/ \* lxi_receive returned a negative length
          IdFailed(c3, open + 1)
       \/ \* n bytes received into the uninitialised buffer
          \E n \in 0..ID_LENGTH_MAX :
          \E d \in [1..n -> TextBytes] :
          \E garbage \in [0..(ID_LENGTH_MAX - 1) -> Bytes] :
          \E before \in Bytes :
            LET buf == [k \in 0..(ID_LENGTH_MAX - 1) |->
                           IF k < n THEN d[k + 1] ELSE garbage[k]]
                s == StripNewline(buf, n, before)
            IN
            /\ id' = s.id
            /\ length' = n
            /\ data' = d
            /\ accessed' = s.accessed
            /\ stripped' = s.wrote
            /\ calls' = c3
            /\ open' = open + 1
            /\ pc' = "autodetect"
            /\ msg' = msg
            /\ i' = i
    /\ UNCHANGED <<regvars, argvars, detectvars, handlervars>>

\* -------------------------------------------------------------- regex_match

\* regcomp(&regex, pattern, REG_EXTENDED | REG_NOSUB) == 0: in the model's
\* alphabet a pattern compiles unless it holds an unbalanced "("
RegComp(pattern) == \A k \in 1..Len(pattern) : pattern[k] # "("

\* regexec(...) == 0: the pattern matches somewhere in the string (a search,
\* not anchored); "." matches any character
RegExec(pattern, string) ==
    \E off \in 0..(Len(string) - Len(pattern)) :
        \A k \in 1..Len(pattern) : pattern[k] = "." \/ pattern[k] = string[off + k]

regex_match(string, pattern) ==
    IF ~RegComp(pattern) THEN FALSE ELSE RegExec(pattern, string)

\* --------------------------------------------------------------- autodetect

RECURSIVE SkipDelims(_, _)
SkipDelims(buf, pos) ==
    IF pos <= Len(buf) /\ buf[pos] = " " THEN SkipDelims(buf, pos + 1) ELSE pos

RECURSIVE TokenEnd(_, _)
TokenEnd(buf, pos) ==
    IF pos <= Len(buf) /\ buf[pos] # " " THEN TokenEnd(buf, pos + 1) ELSE pos

\* strtok(..., " ") continuing at position pos of the buffer: the next token
\* (NULL when only delimiters are left) and the position to continue from
strtok(buf, pos) ==
    LET b == SkipDelims(buf, pos) IN
    IF b > Len(buf) THEN [token |-> NULL, next |-> b]
    ELSE [token |-> SubSeq(buf, b, TokenEnd(buf, b) - 1), next |-> TokenEnd(buf, b) + 1]

RECURSIVE WalkTokens(_, _, _, _)
\* Walk through space separated regular expressions in regex string
\* (lines 329-346): match_count after the walk
WalkTokens(string, regex_buffer, pos, match_count) ==
    LET t == strtok(regex_buffer, pos) IN
    IF t.token # NULL
    THEN WalkTokens(string, regex_buffer, t.next,
                    IF regex_match(string, t.token) THEN match_count + 1 ELSE match_count)
    ELSE match_count

BetterOrEqual(match_count, match_count_max) == match_count >= match_count_max

\* Plugin with most matches wins: if (match_count > match_count_max)
Better(match_count, match_count_max) == match_count > match_count_max

KeepCount(match_count) == match_count

\* Reset: match_count = 0 (line 356)
ResetCount(match_count) == 0

RECURSIVE ScanPlugins(_, _, _, _, _, _, _)
\* The loop of lines 319-359.  Yields plugin_winner and, for each descriptor
\* scanned, the value match_count had when its iteration ended.
ScanPlugins(list, string, k, match_count, match_count_max, plugin_winner, seen) ==
    IF k < PLUGIN_LIST_SIZE_MAX /\ list[k] # NULL
    THEN IF Plugins[list[k]].regex = NULL
         THEN \* Skip plugin if it has no .regex entry
              ScanPlugins(list, string, k + 1, match_count, match_count_max,
                          plugin_winner, Append(seen, match_count))
         ELSE LET mc == WalkTokens(string, Plugins[list[k]].regex, 1, match_count)
                  wins == Better(mc, match_count_max)
              IN ScanPlugins(list, string, k + 1, ResetCount(mc),
                             IF wins THEN mc ELSE match_count_max,
                             IF wins THEN k ELSE plugin_winner,
                             Append(seen, mc))
    ELSE [plugin_winner |-> plugin_winner, scores |-> seen]

NeverFails(plugin_winner) == FALSE

\* if (plugin_winner == -1): no descriptor matched
AutodetectFailed(plugin_winner) == plugin_winner = -1

RECURSIVE CString(_, _)
\* The characters of buf from position k up to the first 0
CString(buf, k) ==
    IF k < ID_LENGTH_MAX /\ buf[k] # NUL THEN <<buf[k]>> \o CString(buf, k + 1) ELSE <<>>

\* No 0 in the buffer: reading the string runs past its end
Unterminated(buf) == \A k \in 0..(ID_LENGTH_MAX - 1) : buf[k] # NUL

\* What may follow the buffer in memory, up to the next 0
Tails == {<<>>, <<"F">>, <<"B">>, <<LF>>}

\* Find relevant screenshot plugin (lines 318-370)
autodetect ==
    /\ pc = "autodetect"
    /\ \E tail \in (IF Unterminated(id) THEN Tails ELSE {<<>>}) :
        LET string == CString(id, 0) \o tail
            r == ScanPlugins(plugin_list, string, 0, 0, 0, -1, <<>>)
        IN
        /\ idstr' = string
        /\ scores' = r.scores
        /\ i' = IF AutodetectFailed(r.plugin_winner) THEN Len(r.scores) ELSE r.plugin_winner
        /\ IF AutodetectFailed(r.plugin_winner)
           THEN /\ pc' = "exit"
                /\ msg' = "Error: Could not autodetect which screenshot plugin to use"
           ELSE /\ pc' = "dispatch"
                /\ msg' = msg
    /\ UNCHANGED <<regvars, argvars, idvars, calls, open, handlervars>>

\* ----------------------------------------------------------------- dispatch

\* The timeout parameter as the handler finds it.  The call passes two
\* arguments (address, timeout); a handler defined with three parameters
\* (address, id, timeout) reads a third argument that was never passed.
HandlerTimeouts(p, t) == IF Plugins[p].params = 3 THEN IntValues ELSE {t}

\* Call capture screenshot function (line 392): the handler is entered
dispatch ==
    /\ pc = "dispatch"
    /\ i \in 0..(PLUGIN_LIST_SIZE_MAX - 1)
    /\ plugin_list[i] # NULL
    /\ \E t \in HandlerTimeouts(plugin_list[i], timeout) :
        invoked' = Append(invoked, [plugin |-> plugin_list[i], address |-> address,
                                    timeout |-> t])
    /\ pc' = "handler"
    /\ UNCHANGED <<regvars, argvars, idvars, detectvars, i, calls, open, hret, ret, msg>>

\* The handler returned r: screenshot() returns that value
HandlerReturns(cs, op, r) ==
    /\ calls' = cs
    /\ open' = op
    /\ hret' = r
    /\ ret' = r
    /\ pc' = "done"
    /\ msg' = msg

\* The screenshot exchange (lines 43-79)
siglent_sdm3000_screenshot ==
    /\ pc = "handler"
    /\ LET t == invoked[Len(invoked)].timeout
           by == "screenshot"
           c1 == Append(calls, Call("lxi_connect", by, t))
           c3 == c1 \o <<Call("lxi_send", by, t), Call("lxi_receive", by, t)>>
       IN
       \/ \* lxi_connect returned LXI_ERROR
          HandlerReturns(c1, open, 1)
       \/ \* lxi_receive returned a negative length
          HandlerReturns(c3, open + 1, 1)
       \/ \* screenshot_file_dump could not open the file: exit(EXIT_FAILURE)
          /\ calls' = c3
          /\ open' = open + 1
          /\ pc' = "exit"
          /\ msg' = "Error: Could not write screenshot file"
          /\ UNCHANGED <<hret, ret>>
       \/ \* image received and written; lxi_disconnect
          HandlerReturns(Append(c3, Call("lxi_disconnect", by, 0)), open, 0)
    /\ UNCHANGED <<regvars, argvars, idvars, detectvars, i, invoked>>

\* ------------------------------------------------------- reference notions

MsgListFull == "Error: Screenshot plugin list full"
MsgUnknown == "Error: Unknown plugin name"
MsgNoDetect == "Error: Could not autodetect which screenshot plugin to use"
MsgFile == "Error: Could not write screenshot file"

\* Indices of the registered descriptors
Registered == {k \in 0..(PLUGIN_LIST_SIZE_MAX - 1) : plugin_list[k] # NULL}

\* The maximal runs of non-space characters of a regex string, as <<first, last>>
Fragments(r) ==
    {sp \in (1..Len(r)) \X (1..Len(r)) :
        /\ sp[1] <= sp[2]
        /\ \A k \in sp[1]..sp[2] : r[k] # " "
        /\ (sp[1] = 1 \/ r[sp[1] - 1] = " ")
        /\ (sp[2] = Len(r) \/ r[sp[2] + 1] = " ")}

\* Number of fragments of descriptor p that individually match the string
RefScore(p, string) ==
    IF Plugins[p].regex = NULL THEN 0
    ELSE Cardinality({sp \in Fragments(Plugins[p].regex) :
                        regex_match(string, SubSeq(Plugins[p].regex, sp[1], sp[2]))})

\* The regex string with its first fragment moved behind the others
Rotated(r) ==
    LET t == strtok(r, 1) IN
    IF t.token = NULL THEN r ELSE SubSeq(r, t.next, Len(r)) \o <<" ">> \o t.token

\* The autodetection loop has run
AfterAutodetect ==
    /\ plugin_name = <<>>
    /\ \/ pc \in {"dispatch", "handler", "done"}
       \/ pc = "exit" /\ msg \in {MsgNoDetect, MsgFile}

\* The explicit-name lookup has run
AfterLookup ==
    /\ plugin_name # <<>>
    /\ \/ pc \in {"dispatch", "handler", "done"}
       \/ pc = "exit" /\ msg \in {MsgUnknown, MsgFile}

\* A descriptor has been selected
Selected == pc \in {"dispatch", "handler", "done"} \/ (pc = "exit" /\ msg = MsgFile)

MaxRefScore ==
    IF Registered = {} THEN 0
    ELSE CHOOSE m \in {RefScore(plugin_list[k], idstr) : k \in Registered} :
            \A k \in Registered : RefScore(plugin_list[k], idstr) <= m

\* ------------------------------------------------------------------ claims

\* C1: in autodetect mode the selected descriptor is the earliest-registered
\* one among those whose score is the maximum over the registry, and that
\* maximum is positive: equal scores keep the earlier descriptor and a
\* descriptor of score 0 is never selected.
C1_EarliestMaxWins ==
    (AfterAutodetect /\ Selected) =>
        /\ i \in Registered
        /\ MaxRefScore > 0
        /\ RefScore(plugin_list[i], idstr) = MaxRefScore
        /\ \A k \in Registered : k < i => RefScore(plugin_list[k], idstr) < MaxRefScore

\* Two descriptors tie on the maximum and the earlier one was dispatched
C1_Witness ==
    /\ AfterAutodetect /\ pc = "done"
    /\ \E k \in Registered :
        /\ k > i
        /\ plugin_list[k] # plugin_list[i]
        /\ RefScore(plugin_list[k], idstr) = RefScore(plugin_list[i], idstr)

\* C2: in autodetect mode, when no registered descriptor scores above 0 on
\* the identity string, the process ends with the 'could not autodetect'
\* failure, no descriptor is selected and no handler is invoked.
C2_NoMatchIsFatal ==
    (AfterAutodetect /\ MaxRefScore = 0) =>
        /\ pc = "exit"
        /\ msg = MsgNoDetect
        /\ invoked = <<>>

\* Autodetection failed over a registry that holds a descriptor with an
\* absent pattern and one whose pattern does not match
C2_Witness ==
    /\ pc = "exit" /\ msg = MsgNoDetect
    /\ \E k \in Registered : Plugins[plugin_list[k]].regex = NULL
    /\ \E k \in Registered : Plugins[plugin_list[k]].regex # NULL

\* C3: with a non-empty plugin name the identity query is never performed:
\* get_device_id issues no transport call and the identity buffer is never
\* filled; an unregistered name ends the process with 'Unknown plugin name'
\* before any transport call and before any handler is invoked.
C3_ExplicitSkipsIdentity ==
    plugin_name # <<>> =>
        /\ \A k \in 1..Len(calls) : calls[k].by # "get_device_id"
        /\ data = <<>> /\ accessed = {} /\ idstr = <<>> /\ scores = <<>>
        /\ (AfterLookup /\ \A k \in Registered : Plugins[plugin_list[k]].name # plugin_name)
              => (pc = "exit" /\ msg = MsgUnknown /\ calls = <<>> /\ invoked = <<>>)

\* A registered name was given and its handler ran to the end
C3_Witness ==
    /\ plugin_name = <<"a">>
    /\ pc = "done"
    /\ Len(calls) > 0

\* C6: the score of every scanned descriptor is the number of its
\* space-separated fragments that individually match the identity string: 0
\* for an absent pattern, a fragment that does not compile counts as not
\* matching, earlier descriptors' scores do not leak into it, and moving a
\* fragment to another place in the pattern does not change the count.
C6_ScoreCountsFragments ==
    AfterAutodetect =>
        /\ Len(scores) = Cardinality(Registered)
        /\ \A k \in Registered :
            /\ k < Len(scores)
            /\ scores[k + 1] = RefScore(plugin_list[k], idstr)
            /\ Plugins[plugin_list[k]].regex # NULL =>
                  WalkTokens(idstr, Rotated(Plugins[plugin_list[k]].regex), 1, 0)
                      = scores[k + 1]

\* A descriptor whose first fragment does not compile scored 1 right after a
\* descriptor that scored 2
C6_Witness ==
    /\ AfterAutodetect
    /\ Len(scores) = 2
    /\ plugin_list[1] = "plug_a"
    /\ scores = <<2, 1>>

\* C7: explicit-name lookup yields the first registered descriptor whose name
\* equals the query exactly (case-sensitive), or the fatal 'Unknown plugin
\* name' when no registered name equals it; it yields one result only, and
\* that descriptor is the one dispatched.
C7_FindByName ==
    AfterLookup =>
        LET M == {k \in Registered : Plugins[plugin_list[k]].name = plugin_name} IN
        IF M = {}
        THEN pc = "exit" /\ msg = MsgUnknown /\ invoked = <<>>
        ELSE /\ i \in M
             /\ \A k \in M : i <= k
             /\ ~(pc = "exit" /\ msg = MsgUnknown)
             /\ Len(invoked) <= 1
             /\ \A k \in 1..Len(invoked) : invoked[k].plugin = plugin_list[i]

\* "A" is looked up in a list that holds "a" in front of "A": the second
\* entry is dispatched
C7_Witness ==
    /\ plugin_name = <<"A">>
    /\ plugin_list[0] = "plug_a"
    /\ plugin_list[1] = "plug_A"
    /\ pc = "done"
    /\ i = 1

\* C8: the list holds the registered descriptors as a contiguous prefix, in
\* the order of their registration, nothing registered earlier is overwritten
\* or removed, at most PLUGIN_LIST_SIZE_MAX are stored, and a registration
\* attempted on a full list ends the process without storing the descriptor.
C8_AppendOnlyRegistry ==
    /\ \A k \in 0..(PLUGIN_LIST_SIZE_MAX - 1) :
          plugin_list[k] = IF k < Len(regLog) THEN regLog[k + 1] ELSE NULL
    /\ Len(regLog) <= PLUGIN_LIST_SIZE_MAX + 1
    /\ Len(regLog) > PLUGIN_LIST_SIZE_MAX <=> (pc = "exit" /\ msg = MsgListFull)

\* A registration was attempted on the full list
C8_Witness ==
    /\ pc = "exit" /\ msg = MsgListFull
    /\ Len(regLog) = PLUGIN_LIST_SIZE_MAX + 1
    /\ regLog[PLUGIN_LIST_SIZE_MAX + 1] = "siglent_sdm3000"
    /\ plugin_list[PLUGIN_LIST_SIZE_MAX - 1] = "plug_b"

\* C4: every connection opened with lxi_connect is released with
\* lxi_disconnect when the exchange that opened it returns, after a failed
\* receive as after a successful one.
C4_ConnectionReleased == open = 0

\* C5: every connect, send and receive of the invocation is given the
\* timeout value the caller passed to screenshot().
C5_TimeoutPassedThrough ==
    \A k \in 1..Len(calls) :
        calls[k].fn \in {"lxi_connect", "lxi_send", "lxi_receive"} =>
            calls[k].timeout = timeout

\* C9: the selected descriptor's handler is invoked exactly once, with the
\* caller's address and timeout, no other handler is invoked, and
\* screenshot() returns the handler's result unchanged.
C9_DispatchOnce ==
    /\ Len(invoked) <= 1
    /\ pc \in {"handler", "done"} => Len(invoked) = 1
    /\ \A k \in 1..Len(invoked) :
        /\ invoked[k].plugin = plugin_list[i]
        /\ invoked[k].address = address
        /\ invoked[k].timeout = timeout
    /\ pc = "done" => ret = hret

\* C10: after n bytes were received the identity used for matching is the
\* received bytes less at most one final newline, and the strip reads and
\* writes only buffer positions 0..n-1.
C10_StripOneNewline ==
    pc = "autodetect" =>
        /\ accessed \subseteq 0..(length - 1)
        /\ IF length > 0 /\ data[length] = LF
           THEN CString(id, 0) = SubSeq(data, 1, length - 1)
           ELSE CString(id, 0) = data

\* ---------------------------------------------------------------- initial

InitCommon ==
    /\ pc = "startup"
    /\ msg = ""
    /\ address = <<>>
    /\ plugin_name = <<>>
    /\ timeout = 0
    /\ id = [k \in 0..(ID_LENGTH_MAX - 1) |-> NUL]
    /\ length = 0
    /\ data = <<>>
    /\ accessed = {}
    /\ stripped = FALSE
    /\ idstr = <<>>
    /\ scores = <<>>
    /\ i = 0
    /\ calls = <<>>
    /\ open = 0
    /\ invoked = <<>>
    /\ hret = 0
    /\ ret = 0

Init ==
    /\ plugin_list = EmptyList
    /\ regLog = <<>>
    /\ budget = MaxRegistrations
    /\ InitCommon

\* The list after PLUGIN_LIST_SIZE_MAX - RegHeadroom registrations of one
\* descriptor (the list accepts a descriptor more than once)
InitReg ==
    /\ regLog = [k \in 1..(PLUGIN_LIST_SIZE_MAX - RegHeadroom) |-> "plug_A"]
    /\ plugin_list = [k \in 0..(PLUGIN_LIST_SIZE_MAX - 1) |->
                        IF k < PLUGIN_LIST_SIZE_MAX - RegHeadroom THEN "plug_A" ELSE NULL]
    /\ budget = RegHeadroom + 1
    /\ InitCommon

NextReg ==
    \/ \E p \in PluginPool : screenshot_plugin_register(p)
    \/ screenshot_register_plugins

Next ==
    \/ \E p \in PluginPool : screenshot_plugin_register(p)
    \/ \E a \in Addresses, n \in PluginNames, t \in Timeouts : screenshot_begin(a, n, t)
    \/ lookup
    \/ get_device_id
    \/ autodetect
    \/ dispatch
    \/ siglent_sdm3000_screenshot

Spec == Init /\ [][Next]_vars

SpecReg == InitReg /\ [][NextReg]_vars
====
